---- MODULE Spec2Model ----
(***************************************************************************)
(* A model of the HTTP request builder of                                  *)
(* pkg/builder/http_request_builder.go: the builder's fields, its          *)
(* configuration setters, the URL composer (buildURL), the executor        *)
(* (Do / do), the decoder and classifier (GetResult) and the diagnostic    *)
(* recorder (setDebugInfo).                                                *)
(*                                                                         *)
(* Go maps are sets of [k, v] records with unique keys; byte slices are    *)
(* sequences of chunks; an io.Reader over a byte slice is the slice with   *)
(* a read offset.                                                          *)
(***************************************************************************)
EXTENDS Integers, Sequences, FiniteSets, TLC

VARIABLES
    method,               \* b.method
    url,                  \* b.url
    headers,              \* b.headers: [nil, kv]
    queryParams,          \* b.queryParams
    body,                 \* b.body: the reader, [set, data, off]
    rawBodyBytes,         \* b.rawBodyBytes
    timeout,              \* b.timeout
    throwUnmarshalError,  \* b.throwUnmarshalError
    response,             \* b.response
    execTime,             \* b.execTime
    debug,                \* the debug object of b.ctx (present or not) and what it collected
    last,                 \* the last call made on the builder: its arguments, what it
                          \* sent, logged and returned
    nexec,                \* number of Do / GetResult calls made so far
    built                 \* what the last direct buildURL call returned

vars == <<method, url, headers, queryParams, body, rawBodyBytes, timeout,
          throwUnmarshalError, response, execTime, debug, last, nexec, built>>

-----------------------------------------------------------------------------
(* Bounds *)

\* Executions (Do / GetResult calls) made on one builder.
MaxExec == 2

\* Query pairs embedded in a base URL handed to the URL composer.
MaxPairs == 2

-----------------------------------------------------------------------------
(* Go maps as sets of [k, v] records *)

MapKeys(m) == {p.k : p \in m}

MapGet(m, key) == (CHOOSE p \in m : p.k = key).v

\* m[key] = val
MapSet(m, key, val) == {p \in m : p.k # key} \cup {[k |-> key, v |-> val]}

Min(a, b) == IF a < b THEN a ELSE b

-----------------------------------------------------------------------------
(* Constructors *)

Methods == {"GET", "POST"}

\* 30 * time.Second, in seconds
DefaultTimeout == 30

NilHeaders == [nil |-> TRUE, kv |-> {}]

NoBody == [set |-> FALSE, data |-> <<>>, off |-> 0]

\* A URL string: whether url.Parse accepts it, the part before the query, and
\* the query as the sequence of its '&'-separated pairs. wf is FALSE for a pair
\* url.ParseQuery rejects (a bad percent escape, a ';').
Pair(key, val) == [k |-> key, v |-> val, wf |-> TRUE]

BadPair(key, val) == [k |-> key, v |-> val, wf |-> FALSE]

MkURL(base, q) == [ok |-> TRUE, base |-> base, q |-> q]

\* A string url.Parse rejects, such as "http://api.example.com:port/".
BrokenURL == [ok |-> FALSE, base |-> "http://api.example.com:port/", q |-> <<>>]

NoURL == [ok |-> FALSE, base |-> "", q |-> <<>>]

ItemsURL == MkURL("https://api.example.com/v1/items", <<>>)

NoResult == [Success |-> FALSE, Data |-> 0]

\* JSON values of a response document's fields.
JBool(x) == [t |-> "bool", b |-> x, n |-> 0]

JNum(x) == [t |-> "number", b |-> FALSE, n |-> x]

JStr == [t |-> "string", b |-> FALSE, n |-> 0]

JNull == [t |-> "null", b |-> FALSE, n |-> 0]

JAbsent == [t |-> "absent", b |-> FALSE, n |-> 0]

\* A response body: its text, whether the text is syntactically valid JSON, the
\* kind of its top-level value, and the values of its "success" and "data" members.
Doc(text, valid, top, success, data) ==
    [text |-> text, valid |-> valid, top |-> top, success |-> success, data |-> data]

EmptyBody == Doc("", FALSE, "", JAbsent, JAbsent)

NoResponse ==
    [set |-> FALSE, Url |-> NoURL, Method |-> "", StatusCode |-> 0,
     Body |-> EmptyBody, Result |-> NoResult]

NoError == [kind |-> "nil", method |-> "", url |-> NoURL, code |-> 0]

NoRequest ==
    [made |-> FALSE, method |-> "", url |-> NoURL, header |-> {}, body |-> <<>>,
     timeout |-> 0]

\* What the network did with a request: nothing yet, a failure or a response.
NoAnswer == [ok |-> FALSE, read |-> 0, StatusCode |-> 0, Body |-> EmptyBody]

\* A call: the operation and its argument, whether it called logger.LogError,
\* the strict flag it ran under, the request it sent and the answer it got, the
\* steps it went through, and the error and the result it returned.
NoCall ==
    [op |-> "none", arg |-> "", logged |-> FALSE, strict |-> FALSE,
     sent |-> NoRequest, net |-> NoAnswer, steps |-> <<>>,
     err |-> NoError, res |-> NoResponse]

Call(op) == [NoCall EXCEPT !.op = op]

NoBuilt == [called |-> FALSE, err |-> "nil", url |-> NoURL]

newBuilder(rawURL, m, hasDebug) ==
    /\ url = rawURL
    /\ method = m
    /\ timeout = DefaultTimeout
    /\ headers = NilHeaders
    /\ queryParams = {}
    /\ body = NoBody
    /\ rawBodyBytes = <<>>
    /\ throwUnmarshalError = TRUE
    /\ response = NoResponse
    /\ execTime = 0
    /\ debug = [present |-> hasDebug, cats |-> {}, stmts |-> <<>>, total |-> 0]
    /\ last = NoCall
    /\ nexec = 0
    /\ built = NoBuilt

-----------------------------------------------------------------------------
(* Configuration *)

ContentType == "Content-Type"

HeaderInputs ==
    { NilHeaders,
      [nil |-> FALSE, kv |-> {[k |-> "Authorization", v |-> "Bearer token"]}],
      [nil |-> FALSE, kv |-> {[k |-> "X-Request-Id", v |-> "abc-123"]}] }

QueryInputs ==
    { {},
      {[k |-> "page", v |-> "1"]},
      {[k |-> "a", v |-> "9"], [k |-> "page", v |-> "2"]} }

TimeoutInputs == {5}

SetRequestHeaders(h) ==
    /\ headers' = h
    /\ last' = Call("SetRequestHeaders")
    /\ UNCHANGED <<method, url, queryParams, body, rawBodyBytes, timeout,
                   throwUnmarshalError, response, execTime, debug, nexec, built>>

SetQueryParams(q) ==
    /\ queryParams' = q
    /\ last' = Call("SetQueryParams")
    /\ UNCHANGED <<method, url, headers, body, rawBodyBytes, timeout,
                   throwUnmarshalError, response, execTime, debug, nexec, built>>

SetRequestTimeout(t) ==
    /\ timeout' = t
    /\ last' = Call("SetRequestTimeout")
    /\ UNCHANGED <<method, url, headers, queryParams, body, rawBodyBytes,
                   throwUnmarshalError, response, execTime, debug, nexec, built>>

SetThrowUnmarshalError(v) ==
    /\ throwUnmarshalError' = v
    /\ last' = Call("SetThrowUnmarshalError")
    /\ UNCHANGED <<method, url, headers, queryParams, body, rawBodyBytes, timeout,
                   response, execTime, debug, nexec, built>>

-----------------------------------------------------------------------------
(* Body helpers *)

\* The values handed to the body setters: a struct (CreateReq{Name: "test"}),
\* a map[string]string and a chan int.
BodyValues == {"struct", "map", "chan"}

\* json.Marshal: a struct and a map serialize, a channel does not.
jsonMarshal(v) ==
    CASE v = "struct" -> [err |-> FALSE, data |-> <<"{\"name\":", "\"test\"}">>]
      [] v = "map"    -> [err |-> FALSE, data |-> <<"{\"k\":", "\"v\"}">>]
      [] OTHER        -> [err |-> TRUE, data |-> <<>>]

\* xml.Marshal: a struct serializes, a map and a channel do not.
xmlMarshal(v) ==
    CASE v = "struct" -> [err |-> FALSE, data |-> <<"<CreateReq><Name>", "test</Name></CreateReq>">>]
      [] OTHER        -> [err |-> TRUE, data |-> <<>>]

\* bytes.NewReader
NewReader(data) == [set |-> TRUE, data |-> data, off |-> 0]

ensureHeaders(h) == IF h.nil THEN [nil |-> FALSE, kv |-> {}] ELSE h

setHeader_KeepExisting(h, key, val) ==
    IF key \in MapKeys(ensureHeaders(h).kv)
    THEN ensureHeaders(h)
    ELSE [nil |-> FALSE, kv |-> ensureHeaders(h).kv \cup {[k |-> key, v |-> val]}]

\* b.ensureHeaders(); b.headers[key] = val
setHeader(h, key, val) ==
    [nil |-> FALSE, kv |-> MapSet(ensureHeaders(h).kv, key, val)]

setBody_ClearOnError(m, mediaType) ==
    IF m.err
    THEN /\ rawBodyBytes' = <<>>
         /\ body' = NoBody
         /\ UNCHANGED headers
    ELSE /\ rawBodyBytes' = m.data
         /\ body' = NewReader(m.data)
         /\ headers' = setHeader(headers, ContentType, mediaType)

\* The body of both setters after the Marshal call: on an error,
\* logger.LogError(err) and return; otherwise the payload, a reader over it
\* and the Content-Type header.
setBody(m, mediaType) ==
    IF m.err
    THEN UNCHANGED <<rawBodyBytes, body, headers>>
    ELSE /\ rawBodyBytes' = m.data
         /\ body' = NewReader(m.data)
         /\ headers' = setHeader(headers, ContentType, mediaType)

SetJSONBody(v) ==
    /\ setBody(jsonMarshal(v), "application/json")
    /\ last' = [Call("SetJSONBody") EXCEPT !.arg = v, !.logged = jsonMarshal(v).err]
    /\ UNCHANGED <<method, url, queryParams, timeout, throwUnmarshalError,
                   response, execTime, debug, nexec, built>>

SetXMLBody(v) ==
    /\ setBody(xmlMarshal(v), "application/xml")
    /\ last' = [Call("SetXMLBody") EXCEPT !.arg = v, !.logged = xmlMarshal(v).err]
    /\ UNCHANGED <<method, url, queryParams, timeout, throwUnmarshalError,
                   response, execTime, debug, nexec, built>>

-----------------------------------------------------------------------------
(* Utils: the URL composer *)

\* The keys that occur in queries, in the byte order sort.Strings gives them.
KeyOrder == <<"a", "b", "page">>

\* The values of key in a raw query, in order; ParseQuery skips a malformed pair.
RECURSIVE ValuesOf(_, _)
ValuesOf(q, key) ==
    IF q = <<>> THEN <<>>
    ELSE IF Head(q).k = key /\ Head(q).wf
         THEN <<Head(q).v>> \o ValuesOf(Tail(q), key)
         ELSE ValuesOf(Tail(q), key)

\* u.Query(): url.Values, a map from key to the list of its values. The error
\* of ParseQuery is dropped, and with it every malformed pair.
Query(u) ==
    { [k |-> key, v |-> ValuesOf(u.q, key)] :
        key \in {u.q[i].k : i \in {j \in DOMAIN u.q : u.q[j].wf}} }

setAll_Add(vals, qp) ==
    {p \in vals : p.k \notin MapKeys(qp)}
    \cup {[k |-> p.k,
           v |-> (IF p.k \in MapKeys(vals) THEN MapGet(vals, p.k) ELSE <<>>) \o <<p.v>>] :
            p \in qp}

\* for k, v := range b.queryParams { q.Set(k, v) }: the keys of a map are
\* distinct, so the order of the range does not show in the result.
setAll(vals, qp) ==
    {p \in vals : p.k \notin MapKeys(qp)} \cup {[k |-> p.k, v |-> <<p.v>>] : p \in qp}

PairsOf(key, vs) == [i \in DOMAIN vs |-> Pair(key, vs[i])]

\* q.Encode(): the pairs sorted by key, each key's values in their order.
RECURSIVE Encode(_, _)
Encode(vals, i) ==
    IF i > Len(KeyOrder) THEN <<>>
    ELSE (IF KeyOrder[i] \in MapKeys(vals)
          THEN PairsOf(KeyOrder[i], MapGet(vals, KeyOrder[i]))
          ELSE <<>>) \o Encode(vals, i + 1)

buildURL(u, qp) ==
    IF Cardinality(qp) = 0 THEN [err |-> "nil", url |-> u]
    ELSE IF ~u.ok THEN [err |-> "InvalidURL", url |-> NoURL]
    ELSE [err |-> "nil", url |-> MkURL(u.base, Encode(setAll(Query(u), qp), 1))]

-----------------------------------------------------------------------------
(* Execution *)

\* textproto.CanonicalMIMEHeaderKey, which req.Header.Set applies to the key
CanonicalKey(key) == IF key = "content-type" THEN ContentType ELSE key

\* for k, v := range b.headers { req.Header.Set(k, v) }: the order of the range
\* is not fixed, so of two keys with one canonical form either may come last.
RequestHeaders(kv) ==
    LET all == {[k |-> CanonicalKey(p.k), v |-> p.v] : p \in kv}
    IN  { H \in SUBSET all :
            /\ MapKeys(H) = MapKeys(all)
            /\ \A p1, p2 \in H : p1.k = p2.k => p1 = p2 }

\* What is left to read of a reader.
Remaining(r) == SubSeq(r.data, r.off + 1, Len(r.data))

\* The reader after n more chunks were read from it.
Advance(r, n) == [r EXCEPT !.off = Min(Len(r.data), r.off + n)]

\* The documents a server answers with.
DocOK == Doc("{\"success\":true,\"data\":7}", TRUE, "object", JBool(TRUE), JNum(7))

DocNotFound == Doc("{\"success\":false,\"data\":null}", TRUE, "object", JBool(FALSE), JNull)

DocHTML == Doc("<html>Bad Gateway</html>", FALSE, "", JAbsent, JAbsent)

DocMistyped == Doc("{\"success\":true,\"data\":\"x\"}", TRUE, "object", JBool(TRUE), JStr)

DocWrongFlag == Doc("{\"success\":\"yes\",\"data\":7}", TRUE, "object", JStr, JNum(7))

Docs == {DocOK, DocNotFound, DocHTML, DocMistyped, DocWrongFlag}

Statuses == {200, 404, 500, 503}

\* What client.Do does with the request: a transport failure, which may come
\* after any part of the request body (a payload is two chunks) was read, or a
\* response, which comes after all of it was.
NetOutcomes ==
    { [ok |-> FALSE, read |-> n, StatusCode |-> 0, Body |-> EmptyBody] : n \in 0..2 }
    \cup { [ok |-> TRUE, read |-> 2, StatusCode |-> s, Body |-> d] : s \in Statuses, d \in Docs }

\* time.Since(start), in milliseconds
ExecTimes == {2}

\* do(): the error it returns and the fields it leaves, given the header order
\* the range took (H) and what the network did (net).
do(H, net) ==
    LET hs == ensureHeaders(headers)
        bu == buildURL(url, queryParams)
        req == [made |-> TRUE, method |-> method, url |-> bu.url, header |-> H,
                body |-> Remaining(body), timeout |-> timeout]
        fresh == [NoResponse EXCEPT !.set = TRUE, !.Url = bu.url, !.Method = method]
    IN  IF bu.err # "nil"
        THEN [err |-> bu.err, headers |-> hs, body |-> body, response |-> response,
              sent |-> NoRequest, net |-> NoAnswer]
        ELSE IF ~bu.url.ok
        THEN [err |-> "RequestConstructionError", headers |-> hs, body |-> body,
              response |-> response, sent |-> NoRequest, net |-> NoAnswer]
        ELSE IF ~net.ok
        THEN [err |-> "NetworkError", headers |-> hs, body |-> Advance(body, net.read),
              response |-> fresh, sent |-> req, net |-> net]
        ELSE [err |-> "nil", headers |-> hs, body |-> Advance(body, net.read),
              response |-> [fresh EXCEPT !.StatusCode = net.StatusCode, !.Body = net.Body],
              sent |-> req, net |-> net]

Err(kind) == [NoError EXCEPT !.kind = kind]

Do(nets) ==
    /\ nexec < MaxExec
    /\ \E H \in RequestHeaders(ensureHeaders(headers).kv), net \in nets, t \in ExecTimes :
          LET r == do(H, net)
          IN  /\ headers' = r.headers
              /\ body' = r.body
              /\ response' = r.response
              /\ execTime' = t
              /\ last' = [Call("Do") EXCEPT !.strict = throwUnmarshalError,
                              !.sent = r.sent, !.net = r.net,
                              !.steps = <<"execute">>, !.err = Err(r.err)]
    /\ nexec' = nexec + 1
    /\ UNCHANGED <<method, url, queryParams, rawBodyBytes, timeout,
                   throwUnmarshalError, debug, built>>

-----------------------------------------------------------------------------
(* Result *)

\* json.Unmarshal(body, &r) for r a zero Response[int]: a syntax error leaves r
\* untouched; a member of the wrong type is skipped, the rest is decoded, and
\* the first such error is returned.
Unmarshal(doc) ==
    IF ~doc.valid THEN [err |-> "SyntaxError", r |-> NoResult]
    ELSE IF doc.top = "null" THEN [err |-> "nil", r |-> NoResult]
    ELSE IF doc.top # "object" THEN [err |-> "UnmarshalTypeError", r |-> NoResult]
    ELSE LET sOK == doc.success.t \in {"bool", "null", "absent"}
             dOK == doc.data.t \in {"number", "null", "absent"}
         IN  [err |-> IF sOK /\ dOK THEN "nil" ELSE "UnmarshalTypeError",
              r |-> [Success |-> IF doc.success.t = "bool" THEN doc.success.b ELSE FALSE,
                     Data |-> IF doc.data.t = "number" THEN doc.data.n ELSE 0]]

\* The HttpStatement setDebugInfo builds from the builder's fields.
Statement(resp, hs, t) ==
    [Time |-> <<t, "s">>, Status |-> resp.StatusCode, Method |-> method,
     Url |-> resp.Url, Headers |-> hs.kv, QueryParams |-> queryParams,
     Body |-> rawBodyBytes, Duration |-> t]

setDebugInfo_NoNilCheck(d, resp, hs, t) ==
    [d EXCEPT !.cats = @ \cup {"http"},
              !.stmts = Append(@, [tag |-> "http", duration |-> t,
                                   st |-> Statement(resp, hs, t)]),
              !.total = @ + t]

\* setDebugInfo(): nothing without a debug object in the context; with one,
\* d.Cat("http"), d.AddStatement("http", b.execTime, ...), d.CalculateTotalTime().
setDebugInfo(d, resp, hs, t) ==
    IF ~d.present THEN d
    ELSE [d EXCEPT !.cats = @ \cup {"http"},
                   !.stmts = Append(@, [tag |-> "http", duration |-> t,
                                        st |-> Statement(resp, hs, t)]),
                   !.total = @ + t]

ServerError_BaseURL(resp) ==
    [kind |-> "ServerError", method |-> method, url |-> url, code |-> resp.StatusCode]

\* fmt.Errorf("http %s %s -> %d", b.method, b.response.Url, b.response.StatusCode)
ServerError(resp) ==
    [kind |-> "ServerError", method |-> method, url |-> resp.Url, code |-> resp.StatusCode]

isServerError_Above(code) == code > 500

isServerError_Client(code) == code >= 400

\* b.response.StatusCode >= 500
isServerError(code) == code >= 500

abortsOnUnmarshal_Always(err, throw) == err # "nil"

\* err != nil && b.throwUnmarshalError
abortsOnUnmarshal(err, throw) == err # "nil" /\ throw

\* GetResult() after b.Do() returned r: the response field, the debug object
\* and the call's outcome.
getResult(r, t) ==
    LET u == Unmarshal(r.response.Body)
        resp == [r.response EXCEPT !.Result = u.r]
        d == setDebugInfo(debug, resp, r.headers, t)
        c == [Call("GetResult") EXCEPT !.strict = throwUnmarshalError,
                                       !.sent = r.sent, !.net = r.net]
    IN  IF r.err # "nil"
        THEN [response |-> r.response, debug |-> debug,
              call |-> [c EXCEPT !.steps = <<"execute">>, !.err = Err(r.err)]]
        ELSE IF abortsOnUnmarshal(u.err, throwUnmarshalError)
        THEN [response |-> r.response, debug |-> debug,
              call |-> [c EXCEPT !.steps = <<"execute", "decode">>, !.err = Err(u.err)]]
        ELSE IF isServerError(resp.StatusCode)
        THEN [response |-> resp, debug |-> d,
              call |-> [c EXCEPT !.steps = <<"execute", "decode", "record", "classify">>,
                                 !.err = ServerError(resp)]]
        ELSE [response |-> resp, debug |-> d,
              call |-> [c EXCEPT !.steps = <<"execute", "decode", "record", "classify">>,
                                 !.res = resp]]

GetResult(nets) ==
    /\ nexec < MaxExec
    /\ \E H \in RequestHeaders(ensureHeaders(headers).kv), net \in nets, t \in ExecTimes :
          LET r == do(H, net)
              g == getResult(r, t)
          IN  /\ headers' = r.headers
              /\ body' = r.body
              /\ execTime' = t
              /\ response' = g.response
              /\ debug' = g.debug
              /\ last' = g.call
    /\ nexec' = nexec + 1
    /\ UNCHANGED <<method, url, queryParams, rawBodyBytes, timeout,
                   throwUnmarshalError, built>>

-----------------------------------------------------------------------------
(* Configuring and executing a builder: the body setters, the header setter *)
(* and the two executions, on a builder whose other fields were set before. *)

Init == \E m \in Methods : newBuilder(ItemsURL, m, FALSE)

Next ==
    \/ \E h \in HeaderInputs : SetRequestHeaders(h)
    \/ \E t \in TimeoutInputs : SetRequestTimeout(t)
    \/ \E v \in BodyValues : SetJSONBody(v)
    \/ \E v \in BodyValues : SetXMLBody(v)
    \/ Do(NetOutcomes)
    \/ GetResult(NetOutcomes)

Spec == Init /\ [][Next]_vars

-----------------------------------------------------------------------------
(* Executing and decoding: the two executions against every answer of the   *)
(* network, on builders with and without a debug object in their context.   *)

ResultURLs == {MkURL("https://api.example.com/v1/items", <<Pair("page", "0")>>), BrokenURL}

InitResult ==
    \E u \in ResultURLs, m \in Methods, hasDebug \in BOOLEAN : newBuilder(u, m, hasDebug)

NextResult ==
    \/ \E q \in QueryInputs : SetQueryParams(q)
    \/ \E v \in BOOLEAN : SetThrowUnmarshalError(v)
    \/ Do(NetOutcomes)
    \/ GetResult(NetOutcomes)

SpecResult == InitResult /\ [][NextResult]_vars

-----------------------------------------------------------------------------
(* The URL composer alone, on base URLs with up to MaxPairs query pairs.    *)

RawPairs ==
    { Pair("a", "1"), Pair("a", "2"), Pair("b", "1"), BadPair("b", "%zz"),
      Pair("page", "0") }

BaseURLs ==
    { MkURL("https://api.example.com/v1/items", q) :
        q \in UNION {[1..n -> RawPairs] : n \in 0..MaxPairs} }
    \cup {BrokenURL}

\* finalURL, err := b.buildURL()
BuildURL ==
    /\ built' = [called |-> TRUE, err |-> buildURL(url, queryParams).err,
                 url |-> buildURL(url, queryParams).url]
    /\ last' = Call("buildURL")
    /\ UNCHANGED <<method, url, headers, queryParams, body, rawBodyBytes, timeout,
                   throwUnmarshalError, response, execTime, debug, nexec>>

InitURL == \E u \in BaseURLs : newBuilder(u, "GET", FALSE)

NextURL ==
    \/ \E q \in QueryInputs : SetQueryParams(q)
    \/ BuildURL

SpecURL == InitURL /\ [][NextURL]_vars

-----------------------------------------------------------------------------
(* Properties of GetResult, under SpecResult *)

ExecOps == {"Do", "GetResult"}

ExecutorErrors == {"InvalidURL", "RequestConstructionError", "NetworkError"}

UnmarshalErrors == {"SyntaxError", "UnmarshalTypeError"}

\* The last call was a GetResult that got a response from the server.
Answered == last.op = "GetResult" /\ last.net.ok

\* The documents that are a JSON object with a boolean "success" and a
\* numeric or null "data".
DecodableDocs == {DocOK, DocNotFound}

\* The envelope each document holds, member by member.
Envelope(doc) ==
    CASE doc = DocOK        -> [Success |-> TRUE, Data |-> 7]
      [] doc = DocNotFound  -> [Success |-> FALSE, Data |-> 0]
      [] doc = DocMistyped  -> [Success |-> TRUE, Data |-> 0]
      [] doc = DocWrongFlag -> [Success |-> FALSE, Data |-> 7]
      [] OTHER              -> [Success |-> FALSE, Data |-> 0]

\* The result the last call returned is the response it got, decoded into e.
Populated(e) ==
    /\ last.err = NoError
    /\ last.res.set
    /\ last.res.StatusCode = last.net.StatusCode
    /\ last.res.Body = last.net.Body
    /\ last.res.Result = e

\* C1: a response with status >= 500 makes GetResult return a non-nil error and
\* a nil result, whatever the body and the strict flag.
C1_ServerStatusIsError ==
    (Answered /\ last.net.StatusCode >= 500)
        => (last.err.kind # "nil" /\ ~last.res.set)

C1_Witness ==
    /\ Answered
    /\ last.net.StatusCode = 500
    /\ last.net.Body = DocHTML
    /\ ~last.strict
    /\ last.err.kind = "ServerError"
    /\ ~last.res.set

\* C2, as claimed: a response with status below 500 makes GetResult return a
\* nil error and a result with the status code, the raw body and the decoded
\* envelope, for every body and every setting of the strict flag.
C2_Original ==
    (Answered /\ last.net.StatusCode < 500) => Populated(Envelope(last.net.Body))

\* C2, amended: so it is when the body decodes into the envelope or strict
\* decoding is off; a body that does not decode, under strict decoding, makes
\* GetResult return the unmarshal error and a nil result.
C2_Amended ==
    (Answered /\ last.net.StatusCode < 500)
        => IF last.net.Body \in DecodableDocs \/ ~last.strict
           THEN Populated(Envelope(last.net.Body))
           ELSE last.err.kind \in UnmarshalErrors /\ ~last.res.set

C2_Witness ==
    /\ Answered
    /\ last.strict
    /\ last.net.StatusCode = 404
    /\ last.net.Body = DocNotFound
    /\ Populated([Success |-> FALSE, Data |-> 0])

IsTheServerError(e) ==
    e = [kind |-> "ServerError", method |-> method, url |-> last.sent.url,
         code |-> last.net.StatusCode]

\* C4, as claimed: under the default configuration (strict decoding), a
\* response with status >= 500 and any body makes GetResult return the server
\* error with the method, the resolved URL and the status.
C4_Original ==
    (Answered /\ last.net.StatusCode >= 500 /\ last.strict) => IsTheServerError(last.err)

\* C4, amended: a response with status >= 500 gives the server error when its
\* body decodes or strict decoding is off; under strict decoding a body that
\* does not decode gives the unmarshal error, which carries none of the three.
C4_Amended ==
    (Answered /\ last.net.StatusCode >= 500)
        => IF last.net.Body \in DecodableDocs \/ ~last.strict
           THEN IsTheServerError(last.err)
           ELSE last.err \in {Err(k) : k \in UnmarshalErrors}

C4_Witness ==
    /\ Answered
    /\ last.strict
    /\ last.net.StatusCode = 503
    /\ last.net.Body = DocOK
    /\ IsTheServerError(last.err)
    /\ last.err.url # url

\* C10: an execution step runs execute, decode, record, classify in this order:
\* a failed executor ends the call with nothing decoded and nothing recorded; a
\* GetResult whose executor and decoding pass goes through all four steps and,
\* with a debug object attached, appends exactly one record under "http", also
\* when the status is >= 500 and an error is returned; without a debug object,
\* and in Do, nothing is appended.
C10_Step ==
    LET n == Len(debug'.stmts) - Len(debug.stmts)
        failed == last'.err.kind \in ExecutorErrors
        aborted == last'.err.kind \in UnmarshalErrors
    IN  nexec' = nexec + 1 =>
          /\ failed => (n = 0 /\ last'.steps = <<"execute">>)
          /\ (last'.op = "GetResult" /\ ~failed /\ ~aborted) =>
                /\ last'.steps = <<"execute", "decode", "record", "classify">>
                /\ last'.net.ok
                /\ (last'.net.StatusCode >= 500) = (last'.err.kind = "ServerError")
                /\ debug.present =>
                      /\ n = 1
                      /\ "http" \in debug'.cats
                      /\ debug'.stmts[Len(debug'.stmts)].tag = "http"
                      /\ debug'.stmts[Len(debug'.stmts)].st.Status = last'.net.StatusCode
                      /\ SubSeq(debug'.stmts, 1, Len(debug.stmts)) = debug.stmts
          /\ (~debug.present \/ last'.op = "Do") => n = 0

C10_RecordingOrder == [][C10_Step]_vars

C10_Witness ==
    /\ Answered
    /\ debug.present
    /\ last.net.StatusCode = 503
    /\ last.err.kind = "ServerError"
    /\ nexec = 2
    /\ Len(debug.stmts) = 2
    /\ debug.stmts[2].st.Status = 503

-----------------------------------------------------------------------------
(* Properties of the body setters and of the request sent, under Spec *)

BodySetters == {"SetJSONBody", "SetXMLBody"}

HasHeader(kv, key, val) == \A p \in kv : p.k = key <=> p = [k |-> key, v |-> val]

\* The builder holds payload data, unread, and the Content-Type mediaType.
HoldsBody(data, mediaType) ==
    /\ rawBodyBytes = data
    /\ body = [set |-> TRUE, data |-> data, off |-> 0]
    /\ ~headers.nil
    /\ [k |-> ContentType, v |-> mediaType] \in headers.kv
    /\ HasHeader(headers.kv, ContentType, mediaType)

\* C5, as claimed: every call to SetJSONBody leaves Content-Type equal to
\* application/json and every call to SetXMLBody leaves it equal to
\* application/xml, the payload and the header being those of the later call.
C5_Original ==
    /\ last.op = "SetJSONBody" => HoldsBody(jsonMarshal(last.arg).data, "application/json")
    /\ last.op = "SetXMLBody" => HoldsBody(xmlMarshal(last.arg).data, "application/xml")

\* C5, amended: so does every call whose value serializes (a call whose value
\* does not is logged and changes nothing, see C8).
C5_Amended ==
    /\ (last.op = "SetJSONBody" /\ ~last.logged)
          => HoldsBody(jsonMarshal(last.arg).data, "application/json")
    /\ (last.op = "SetXMLBody" /\ ~last.logged)
          => HoldsBody(xmlMarshal(last.arg).data, "application/xml")

C5_Witness ==
    /\ last.op = "SetXMLBody"
    /\ ~last.logged
    /\ HoldsBody(<<"<CreateReq><Name>", "test</Name></CreateReq>">>, "application/xml")
    /\ nexec = 1
    /\ last.arg = "struct"

\* C8, as claimed: a body setter whose value fails to serialize leaves the
\* builder without a body, whatever calls preceded it.
C8_Original ==
    (last.op \in BodySetters /\ last.logged) => (~body.set /\ rawBodyBytes = <<>>)

\* C8, amended: a body setter whose value fails to serialize leaves the body,
\* the payload and the headers as they were before the call: unset on a builder
\* that had no body, those of the earlier successful call otherwise.
C8_Step ==
    last'.logged =>
        /\ last'.op \in BodySetters
        /\ body' = body
        /\ rawBodyBytes' = rawBodyBytes
        /\ headers' = headers

C8_Amended == [][C8_Step]_vars

C8_Witness ==
    /\ last.op = "SetXMLBody"
    /\ last.arg = "map"
    /\ last.logged
    /\ HoldsBody(<<"{\"k\":", "\"v\"}">>, "application/json")

\* The media type of a payload.
MediaTypeOf(data) ==
    IF data \in {jsonMarshal(v).data : v \in {w \in BodyValues : ~jsonMarshal(w).err}}
    THEN "application/json"
    ELSE "application/xml"

\* C6: whatever the order of the configuration calls, the request an execution
\* sends for a builder with a body carries the Content-Type of that body.
C6_SentContentType ==
    (last.op \in ExecOps /\ last.sent.made /\ body.set)
        => [k |-> ContentType, v |-> MediaTypeOf(rawBodyBytes)] \in last.sent.header

\* C9: an execution leaves the request description as it was, and an execution
\* that follows one that got its response sends the body that one sent.
C9_Step ==
    nexec' = nexec + 1 =>
        /\ method' = method
        /\ url' = url
        /\ queryParams' = queryParams
        /\ timeout' = timeout
        /\ throwUnmarshalError' = throwUnmarshalError
        /\ rawBodyBytes' = rawBodyBytes
        /\ ensureHeaders(headers').kv = ensureHeaders(headers).kv
        /\ body'.set = body.set
        /\ body'.data = body.data
        /\ (last.op \in ExecOps /\ last.net.ok /\ last'.sent.made)
              => last'.sent.body = last.sent.body

C9_ExecutionKeepsRequest == [][C9_Step]_vars

-----------------------------------------------------------------------------
(* Properties of buildURL, under SpecURL *)

\* The pairs of a raw query that have the key, in their order.
RECURSIVE PairsFor(_, _)
PairsFor(q, key) ==
    IF q = <<>> THEN <<>>
    ELSE (IF Head(q).k = key THEN <<Head(q)>> ELSE <<>>) \o PairsFor(Tail(q), key)

RECURSIVE WellFormed(_)
WellFormed(q) ==
    IF q = <<>> THEN <<>>
    ELSE (IF Head(q).wf THEN <<Head(q)>> ELSE <<>>) \o WellFormed(Tail(q))

KeysOf(q) == {q[i].k : i \in DOMAIN q}

\* C7, as claimed, for a base URL that parses: with no query parameters the
\* base URL comes back unchanged; otherwise the composed query is the base
\* URL's query with each configured key set to its value and every pair of
\* another key as it was.
C7_Original ==
    (last.op = "buildURL" /\ url.ok) =>
        /\ built.err = "nil"
        /\ IF queryParams = {} THEN built.url = url
           ELSE /\ built.url.ok
                /\ built.url.base = url.base
                /\ \A key \in KeysOf(url.q) \cup KeysOf(built.url.q) \cup MapKeys(queryParams) :
                      PairsFor(built.url.q, key) =
                        IF key \in MapKeys(queryParams)
                        THEN <<Pair(key, MapGet(queryParams, key))>>
                        ELSE PairsFor(url.q, key)

\* C7, amended: with query parameters, every pair of another key that
\* url.ParseQuery accepts is kept and every pair it rejects is dropped, and a
\* base URL that does not parse gives an error; with none, the base URL comes
\* back unchanged whatever it is.
C7_Amended ==
    last.op = "buildURL" =>
        IF queryParams = {} THEN built.err = "nil" /\ built.url = url
        ELSE IF ~url.ok THEN built.err = "InvalidURL" /\ built.url = NoURL
        ELSE /\ built.err = "nil"
             /\ built.url.ok
             /\ built.url.base = url.base
             /\ \A key \in KeysOf(url.q) \cup KeysOf(built.url.q) \cup MapKeys(queryParams) :
                   PairsFor(built.url.q, key) =
                     IF key \in MapKeys(queryParams)
                     THEN <<Pair(key, MapGet(queryParams, key))>>
                     ELSE WellFormed(PairsFor(url.q, key))

C7_Witness ==
    /\ last.op = "buildURL"
    /\ queryParams = {[k |-> "a", v |-> "9"], [k |-> "page", v |-> "2"]}
    /\ url.q = <<BadPair("b", "%zz"), Pair("a", "1")>>
    /\ built.url.q = <<Pair("a", "9"), Pair("page", "2")>>

====
